---- MODULE Spec2Model ----
(***************************************************************************)
(* A model of the SDS parser (src/sds_parser.py): the pattern-driven field *)
(* extraction engine (find_first, parse_date, compute_risk_rating,        *)
(* infer_flags, extract_fields) and the CSV register store                 *)
(* (append_record_to_csv).                                                 *)
(*                                                                         *)
(* Strings are TLA+ strings handled character by character (Len, SubSeq,   *)
(* \o).  Python's None is the empty tuple <<>> and a present string s is    *)
(* the one-element tuple <<s>>, so that None and "" stay distinct.          *)
(***************************************************************************)
EXTENDS Integers, Sequences, FiniteSets, TLC

\* ------------------------------------------------------------------------
\* Optional[str]
\* ------------------------------------------------------------------------
None == <<>>

Some(s) == <<s>>

\* Python truthiness of an Optional[str]: None and "" are falsy.
Truthy(o) == o # None /\ o[1] # ""

\* `x or ""`
OrEmpty(o) == IF Truthy(o) THEN o[1] ELSE ""

\* ------------------------------------------------------------------------
\* Characters and the str methods the code uses
\* ------------------------------------------------------------------------
LowerChars == "abcdefghijklmnopqrstuvwxyz"

UpperChars == "ABCDEFGHIJKLMNOPQRSTUVWXYZ"

DigitChars == "0123456789"

CharAt(s, i) == SubSeq(s, i, i)

CharSet(s) == {CharAt(s, k) : k \in 1..Len(s)}

LowerSet == CharSet(LowerChars)

UpperSet == CharSet(UpperChars)

DigitSet == CharSet(DigitChars)

\* str.isspace for the characters of the model's alphabet
SpaceSet == {" ", "\t", "\n", "\r", "\f"}

\* \w
WordSet == LowerSet \cup UpperSet \cup DigitSet \cup {"_"}

LowerTab == [c \in UpperSet |-> CharAt(LowerChars, CHOOSE k \in 1..26 : CharAt(UpperChars, k) = c)]

UpperTab == [c \in LowerSet |-> CharAt(UpperChars, CHOOSE k \in 1..26 : CharAt(LowerChars, k) = c)]

LowerCh(c) == IF c \in UpperSet THEN LowerTab[c] ELSE c

UpperCh(c) == IF c \in LowerSet THEN UpperTab[c] ELSE c

\* The operators that walk a string split it in halves, so that the depth
\* of the recursion is the logarithm of its length.
RECURSIVE LowerStr(_)
\* str.lower()
LowerStr(s) ==
    IF Len(s) = 0 THEN ""
    ELSE IF Len(s) = 1 THEN LowerCh(s)
    ELSE LowerStr(SubSeq(s, 1, Len(s) \div 2)) \o LowerStr(SubSeq(s, Len(s) \div 2 + 1, Len(s)))

RECURSIVE UpperStr(_)
\* str.upper()
UpperStr(s) ==
    IF Len(s) = 0 THEN ""
    ELSE IF Len(s) = 1 THEN UpperCh(s)
    ELSE UpperStr(SubSeq(s, 1, Len(s) \div 2)) \o UpperStr(SubSeq(s, Len(s) \div 2 + 1, Len(s)))

\* str.strip(): from the first to the last character that is no whitespace
Strip(s) ==
    LET keep == {k \in 1..Len(s) : CharAt(s, k) \notin SpaceSet}
    IN  IF keep = {} THEN ""
        ELSE SubSeq(s, CHOOSE k \in keep : \A j \in keep : k <= j,
                    CHOOSE k \in keep : \A j \in keep : k >= j)

RECURSIVE ReplaceChar(_, _, _)
\* str.replace(a, b) for a single character a
ReplaceChar(s, a, b) ==
    IF Len(s) = 0 THEN ""
    ELSE IF Len(s) = 1 THEN (IF s = a THEN b ELSE s)
    ELSE ReplaceChar(SubSeq(s, 1, Len(s) \div 2), a, b)
             \o ReplaceChar(SubSeq(s, Len(s) \div 2 + 1, Len(s)), a, b)

DigitVal(c) == (CHOOSE k \in 1..10 : CharAt(DigitChars, k) = c) - 1

RECURSIVE ToInt(_)
\* int(s) for a non-empty string of decimal digits
ToInt(s) ==
    IF Len(s) = 1 THEN DigitVal(s)
    ELSE 10 * ToInt(SubSeq(s, 1, Len(s) - 1)) + DigitVal(CharAt(s, Len(s)))

\* ------------------------------------------------------------------------
\* Regular expressions (Python's re): a backtracking matcher.
\*
\* A regex node is a tuple whose first element names its kind:
\*   <<"lit", s>>            the characters of s
\*   <<"cls", c>>            one character of class c: a named class ("\\s", "\\d",
\*                           "\\dot", ...) or the single character c itself
\*   <<"in", s>>             one character among those of s, [...]
\*   <<"rep", c, lo, hi>>    greedy repetition c{lo,hi} of a class (hi = -1: unbounded)
\*   <<"seq", <<r1, ...>>>>  concatenation
\*   <<"alt", <<r1, ...>>>>  alternation r1|r2|..., tried left to right
\*   <<"opt", r>>            r?
\*   <<"star", r>>           greedy r* of a regex r that matches no empty string
\*   <<"wb">>                \b
\*   <<"bol">>, <<"eol">>    ^ and $ under re.M
\*   <<"end">>               $ without re.M
\* Ends(r, t, i) is the sequence of positions at which a match of r that
\* starts at position i of t can end, in the order backtracking tries them.
\* ------------------------------------------------------------------------
\* the named classes that are the characters of a set ...
ClassOf ==
    [s |-> SpaceSet,                                             \* \s
     d |-> DigitSet,                                             \* \d, [0-9]
     alnumdot |-> LowerSet \cup UpperSet \cup DigitSet \cup {"."},  \* [0-9A-Za-z\.]
     sep |-> {":", "-"},                                         \* [:\-]
     slashdash |-> {"/", "-"},                                   \* [/-]
     trail |-> SpaceSet \cup {";", ":"},                          \* [\s;:]
     tab |-> {"\t"}]

\* ... and those that are every character but those of a set
ClassButOf ==
    [dot |-> {"\n"},                  \* .
     all |-> {},                      \* . under re.S
     notnl |-> {"\n"},                \* [^\n]
     nobreak |-> {"\n", "\r", "\f"},  \* within a line
     noquote |-> {"\""},              \* within a quoted csv field
     plain |-> {",", "\n", "\r"}]     \* within a plain csv field

\* a class is written "\\" and its name; any other string is the one
\* character that matches itself
InClass(c, cls) ==
    IF Len(cls) = 1 THEN c = cls
    ELSE LET name == SubSeq(cls, 2, Len(cls))
         IN  IF name \in DOMAIN ClassOf THEN c \in ClassOf[name] ELSE c \notin ClassButOf[name]

RECURSIVE ScanNot(_, _, _, _)
\* the first position in lo..hi of t whose character is not of class cls, or hi + 1
ScanNot(t, cls, lo, hi) ==
    IF lo > hi THEN hi + 1
    ELSE IF lo = hi THEN (IF InClass(CharAt(t, lo), cls) THEN hi + 1 ELSE lo)
    ELSE LET mid == (lo + hi) \div 2
             l == ScanNot(t, cls, lo, mid)
         IN  IF l <= mid THEN l ELSE ScanNot(t, cls, mid + 1, hi)

RECURSIVE GallopNot(_, _, _, _, _)
\* the same, looking at w characters, then 2w, then 4w, ...
GallopNot(t, cls, lo, hi, w) ==
    IF lo > hi THEN hi + 1
    ELSE LET top == IF lo + w - 1 < hi THEN lo + w - 1 ELSE hi
             l == ScanNot(t, cls, lo, top)
         IN  IF l <= top THEN l ELSE GallopNot(t, cls, top + 1, hi, 2 * w)

\* the first position in lo..hi of t whose character is not of class cls, or hi + 1
FirstNot(t, cls, lo, hi) == GallopNot(t, cls, lo, hi, 1)

\* how many characters of class cls start at position i of t, at most hi (hi = -1: any)
Run(t, i, cls, hi) ==
    LET last == IF hi = -1 \/ i + hi - 1 > Len(t) THEN Len(t) ELSE i + hi - 1
    IN  FirstNot(t, cls, i, last) - i

IsWordAt(t, i) == i >= 1 /\ i <= Len(t) /\ CharAt(t, i) \in WordSet

RECURSIVE Ends(_, _, _)
RECURSIVE SeqEnds(_, _, _, _)
RECURSIVE AltEnds(_, _, _, _)
RECURSIVE FlatSeqEnds(_, _, _, _, _)
RECURSIVE StarEnds(_, _, _, _)

Ends(r, t, i) ==
    CASE r[1] = "lit" ->
           IF i + Len(r[2]) - 1 <= Len(t) /\ SubSeq(t, i, i + Len(r[2]) - 1) = r[2]
           THEN <<i + Len(r[2])>> ELSE <<>>
      [] r[1] = "cls" ->
           IF i <= Len(t) /\ InClass(CharAt(t, i), r[2]) THEN <<i + 1>> ELSE <<>>
      [] r[1] = "in" ->
           IF i <= Len(t) /\ CharAt(t, i) \in CharSet(r[2]) THEN <<i + 1>> ELSE <<>>
      [] r[1] = "rep" ->
           LET n == Run(t, i, r[2], r[4])
           IN  IF n < r[3] THEN <<>> ELSE [k \in 1..(n - r[3] + 1) |-> i + n - (k - 1)]
      [] r[1] = "seq" -> SeqEnds(r[2], 1, t, i)
      [] r[1] = "alt" -> AltEnds(r[2], 1, t, i)
      [] r[1] = "opt" -> Ends(r[2], t, i) \o <<i>>
      [] r[1] = "star" -> StarEnds(r, t, Ends(r[2], t, i), 1) \o <<i>>
      [] r[1] = "wb" -> IF IsWordAt(t, i - 1) # IsWordAt(t, i) THEN <<i>> ELSE <<>>
      [] r[1] = "bol" -> IF i = 1 \/ CharAt(t, i - 1) = "\n" THEN <<i>> ELSE <<>>
      [] r[1] = "eol" -> IF i = Len(t) + 1 \/ CharAt(t, i) = "\n" THEN <<i>> ELSE <<>>
      [] r[1] = "end" ->
           IF i = Len(t) + 1 \/ (i = Len(t) /\ CharAt(t, i) = "\n") THEN <<i>> ELSE <<>>

SeqEnds(rs, k, t, i) ==
    IF k > Len(rs) THEN <<i>> ELSE FlatSeqEnds(rs, k, t, Ends(rs[k], t, i), 1)

FlatSeqEnds(rs, k, t, es, n) ==
    IF n > Len(es) THEN <<>>
    ELSE SeqEnds(rs, k + 1, t, es[n]) \o FlatSeqEnds(rs, k, t, es, n + 1)

StarEnds(r, t, es, n) ==
    IF n > Len(es) THEN <<>> ELSE Ends(r, t, es[n]) \o StarEnds(r, t, es, n + 1)

AltEnds(rs, k, t, i) ==
    IF k > Len(rs) THEN <<>> ELSE Ends(rs[k], t, i) \o AltEnds(rs, k + 1, t, i)

\* A compiled pattern (re.Pattern) is a record
\*   [parts |-> <<p1, ...>>, icase |-> BOOLEAN]
\* whose parts are <<regex, isGroup>> pairs matched one after the other; the
\* parts with isGroup = TRUE are the pattern's capturing groups, in order.
NoMatch == <<>>

RECURSIVE MatchParts(_, _, _, _)
RECURSIVE TryEnds(_, _, _, _, _)
\* The part boundaries of the first match (in backtracking order) of
\* parts k.. at position i, or NoMatch.  A match is <<"m", e_k, ..., e_n>>.
MatchParts(parts, k, t, i) ==
    IF k > Len(parts) THEN <<"m">>
    ELSE TryEnds(parts, k, t, Ends(parts[k][1], t, i), 1)

TryEnds(parts, k, t, es, n) ==
    IF n > Len(es) THEN NoMatch
    ELSE LET rest == MatchParts(parts, k + 1, t, es[n])
         IN  IF rest # NoMatch THEN <<"m", es[n]>> \o Tail(rest)
             ELSE TryEnds(parts, k, t, es, n + 1)

RECURSIVE SearchFrom(_, _, _, _)
\* the match at the leftmost position of lo..hi that has one: <<[start, ends]>>
\* or NoMatch
SearchFrom(parts, t, lo, hi) ==
    IF lo > hi THEN NoMatch
    ELSE IF lo = hi
         THEN LET m == MatchParts(parts, 1, t, lo)
              IN  IF m # NoMatch THEN <<[start |-> lo, ends |-> Tail(m)]>> ELSE NoMatch
    ELSE LET mid == (lo + hi) \div 2
             l == SearchFrom(parts, t, lo, mid)
         IN  IF l # NoMatch THEN l ELSE SearchFrom(parts, t, mid + 1, hi)

\* pat.search(text): NoMatch or <<[start, ends]>>
Search(pat, text) ==
    SearchFrom(pat.parts, IF pat.icase THEN LowerStr(text) ELSE text, 1, Len(text) + 1)

\* where the match m ends
MatchEnd(m) == IF m.ends = <<>> THEN m.start ELSE m.ends[Len(m.ends)]

\* m.group(0)
Group0(text, m) == SubSeq(text, m.start, MatchEnd(m) - 1)

PartStart(m, k) == IF k = 1 THEN m.start ELSE m.ends[k - 1]

RECURSIVE GroupsFrom(_, _, _, _)
GroupsFrom(pat, text, m, k) ==
    IF k > Len(pat.parts) THEN <<>>
    ELSE (IF pat.parts[k][2] THEN <<SubSeq(text, PartStart(m, k), m.ends[k] - 1)>> ELSE <<>>)
         \o GroupsFrom(pat, text, m, k + 1)

\* m.groups()
Groups(pat, text, m) == GroupsFrom(pat, text, m, 1)

RECURSIVE LowerRe(_)
RECURSIVE LowerReSeq(_)
\* what re.I does to a pattern: letters match in either case
LowerRe(r) ==
    CASE r[1] \in {"lit", "in"} -> <<r[1], LowerStr(r[2])>>
      [] r[1] = "cls" -> <<"cls", LowerStr(r[2])>>
      [] r[1] = "rep" -> <<"rep", LowerStr(r[2]), r[3], r[4]>>
      [] r[1] \in {"seq", "alt"} -> <<r[1], LowerReSeq(r[2])>>
      [] r[1] \in {"opt", "star"} -> <<r[1], LowerRe(r[2])>>
      [] OTHER -> r

LowerReSeq(rs) ==
    IF rs = <<>> THEN <<>> ELSE <<LowerRe(Head(rs))>> \o LowerReSeq(Tail(rs))

RECURSIVE DotAllRe(_)
RECURSIVE DotAllReSeq(_)
\* what re.S does to a pattern: "." also matches a newline
DotAllRe(r) ==
    CASE r[1] = "cls" /\ r[2] = "\\dot" -> <<"cls", "\\all">>
      [] r[1] = "rep" /\ r[2] = "\\dot" -> <<"rep", "\\all", r[3], r[4]>>
      [] r[1] \in {"seq", "alt"} -> <<r[1], DotAllReSeq(r[2])>>
      [] r[1] \in {"opt", "star"} -> <<r[1], DotAllRe(r[2])>>
      [] OTHER -> r

DotAllReSeq(rs) ==
    IF rs = <<>> THEN <<>> ELSE <<DotAllRe(Head(rs))>> \o DotAllReSeq(Tail(rs))

RECURSIVE CompileParts(_, _)
CompileParts(parts, flags) ==
    IF parts = <<>> THEN <<>>
    ELSE LET p == Head(parts)
             r1 == IF "I" \in flags THEN LowerRe(p[1]) ELSE p[1]
             r2 == IF "S" \in flags THEN DotAllRe(r1) ELSE r1
         IN  <<<<r2, p[2]>>>> \o CompileParts(Tail(parts), flags)

\* re.compile(pattern, flags); re.M is written into the pattern as bol/eol
Compile(parts, flags) == [parts |-> CompileParts(parts, flags), icase |-> "I" \in flags]

\* constructors, to write the patterns as the source writes them
Lit(s) == <<"lit", s>>

Cls(c) == <<"cls", c>>

Rep(c, lo, hi) == <<"rep", c, lo, hi>>

SeqOf(rs) == <<"seq", rs>>

Alt(rs) == <<"alt", rs>>

Opt(r) == <<"opt", r>>

Wb == <<"wb">>

Bol == <<"bol">>

Eol == <<"eol">>

EndAnchor == <<"end">>

\* a part outside every capturing group, and a capturing group
N(r) == <<r, FALSE>>

G(r) == <<r, TRUE>>

\* \s*[:\-]?\s*
SepRe == SeqOf(<<Rep("\\s", 0, -1), Opt(Cls("\\sep")), Rep("\\s", 0, -1)>>)

\* (.+)
RestOfLine == G(Rep("\\dot", 1, -1))

\* (Yes|No)
YesNo == G(Alt(<<Lit("Yes"), Lit("No")>>))

\* (I{1,3}|II|III)
RomanGroup == G(Alt(<<Rep("I", 1, 3), Lit("II"), Lit("III")>>))

\* \d{1,2}[/-]\d{1,2}[/-]\d{2,4}
DateRe ==
    SeqOf(<<Rep("\\d", 1, 2), Cls("\\slashdash"), Rep("\\d", 1, 2), Cls("\\slashdash"),
            Rep("\\d", 2, 4)>>)

\* the length limit of the description block, (.{0,800}) and [:800]
DescriptionLimit == 800

PATTERNS ==
    [product_name |-> <<
        Compile(<<N(SeqOf(<<Lit("Product Identifier"), SepRe>>)), RestOfLine>>, {"I"}),
        Compile(<<N(SeqOf(<<Bol, Rep("\\s", 0, -1), Lit("Product Name"), SepRe>>)),
                  RestOfLine, N(Eol)>>, {"I", "M"}),
        Compile(<<N(SeqOf(<<Bol, Rep("\\s", 0, -1), Lit("Trade Name"), SepRe>>)),
                  RestOfLine, N(Eol)>>, {"I", "M"})>>,
     vendor |-> <<
        Compile(<<N(SeqOf(<<Lit("Manufacturer"), Opt(Lit("/Supplier")), SepRe>>)),
                  RestOfLine>>, {"I"}),
        Compile(<<N(SeqOf(<<Lit("Company Name"), SepRe>>)), RestOfLine>>, {"I"}),
        Compile(<<N(SeqOf(<<Lit("Supplier"), SepRe>>)), RestOfLine>>, {"I"})>>,
     issue_date |-> <<
        Compile(<<G(Alt(<<Lit("Revision"), Lit("Issue"), Lit("Date of issue"),
                          Lit("Version date")>>)),
                  N(SepRe), G(DateRe)>>, {"I"}),
        Compile(<<G(Alt(<<Lit("Prepared"), Lit("Last revised")>>)),
                  N(SepRe), G(DateRe)>>, {"I"})>>,
     dangerous_goods_class |-> <<
        Compile(<<N(SeqOf(<<Wb,
                            Opt(SeqOf(<<Lit("Dangerous"), Rep("\\s", 1, -1), Lit("Goods"),
                                        Rep("\\s", 0, -1)>>)),
                            Lit("Class"), Opt(Lit("/Division")), SepRe>>)),
                  G(Rep("\\alnumdot", 1, -1)), N(Wb)>>, {"I"})>>,
     un_number |-> <<
        Compile(<<N(SeqOf(<<Wb, Lit("UN"), Rep("\\s", 0, -1)>>)), G(Rep("\\d", 3, 4)),
                  N(Wb)>>, {"I"})>>,
     packing_group |-> <<
        Compile(<<N(SeqOf(<<Lit("Packing"), Rep("\\s", 1, -1), Lit("Group"), SepRe>>)),
                  RomanGroup, N(Wb)>>, {"I"})>>,
     subsidiary_risks |-> <<
        Compile(<<N(SeqOf(<<Lit("Subsidiary Risk"), Opt(Cls("s")), SepRe>>)),
                  RestOfLine>>, {"I"})>>,
     cas_number |-> <<
        Compile(<<N(SeqOf(<<Wb, Lit("CAS"), Opt(Alt(<<Lit(" No."), Lit(" Number")>>)),
                            SepRe>>)),
                  G(SeqOf(<<Rep("\\d", 2, 7), Lit("-"), Rep("\\d", 2, 2), Lit("-"),
                            Cls("\\d")>>))>>, {"I"})>>,
     hazardous_substance |-> <<
        Compile(<<N(SeqOf(<<Lit("Hazardous Substance"), SepRe>>)), YesNo, N(Wb)>>, {"I"})>>,
     dangerous_good |-> <<
        Compile(<<N(SeqOf(<<Lit("Dangerous Good"), Opt(Lit("s")), SepRe>>)), YesNo,
                  N(Wb)>>, {"I"})>>,
     description_section2 |-> <<
        Compile(<<N(SeqOf(<<Lit("Section"), Rep("\\s", 0, -1), Lit("2"),
                            Rep("\\notnl", 0, -1), Lit("\n")>>)),
                  G(Rep("\\dot", 0, DescriptionLimit))>>, {"I", "S"})>>]

\* [\s;:]+$
TrailingNoise == Compile(<<N(SeqOf(<<Rep("\\trail", 1, -1), EndAnchor>>))>>, {})

RECURSIVE ReSub(_, _, _)
\* s with its first match m replaced by repl, and the rest of s treated alike
ReSubAt(pat, repl, s, m) ==
    IF m = NoMatch \/ s = "" THEN s
    ELSE IF MatchEnd(m[1]) = m[1].start THEN s
    ELSE SubSeq(s, 1, m[1].start - 1) \o repl
             \o ReSub(pat, repl, SubSeq(s, MatchEnd(m[1]), Len(s)))

\* re.sub(pat, repl, s) for a pattern that matches no empty string: every
\* non-overlapping match replaced by repl
ReSub(pat, repl, s) == ReSubAt(pat, repl, s, Search(pat, s))

NonEmpty(g) == g # ""

\* the first of the groups taken for the last
FirstOr(groups, whole) == IF groups # <<>> THEN groups[1] ELSE whole

\* `groups[-1] if groups else m.group(0)`
LastOr(groups, whole) == IF groups # <<>> THEN groups[Len(groups)] ELSE whole

\* the value find_first takes from a match m of pat
MatchValue(pat, text, m) ==
    ReSub(TrailingNoise, "",
          Strip(LastOr(SelectSeq(Groups(pat, text, m), NonEmpty), Group0(text, m))))

RECURSIVE find_first(_, _)
\* the body of the loop for the first of patterns, whose search gave m
FirstFrom(patterns, text, m) ==
    IF m # NoMatch THEN Some(MatchValue(Head(patterns), text, m[1]))
    ELSE find_first(Tail(patterns), text)

find_first(patterns, text) ==
    IF patterns = <<>> THEN None
    ELSE FirstFrom(patterns, text, Search(Head(patterns), text))

\* [\t ]+ (the model's alphabet has the tab only)
TabRun == Compile(<<N(Rep("\\tab", 1, -1))>>, {})

normalize_whitespace(txt) == ReSub(TabRun, " ", txt)

\* ------------------------------------------------------------------------
\* parse_date
\* ------------------------------------------------------------------------
DATE_FORMATS_IN == <<"%d/%m/%Y", "%d-%m-%Y", "%d/%m/%y", "%Y-%m-%d", "%m/%d/%Y">>

\* _strptime.TimeRE: the regex of each directive
DirectiveRe(c) ==
    CASE c = "d" -> Alt(<<SeqOf(<<Lit("3"), <<"in", "01">>>>),
                          SeqOf(<<<<"in", "12">>, Cls("\\d")>>),
                          SeqOf(<<Lit("0"), <<"in", "123456789">>>>),
                          <<"in", "123456789">>,
                          SeqOf(<<Lit(" "), <<"in", "123456789">>>>)>>)
      [] c = "m" -> Alt(<<SeqOf(<<Lit("1"), <<"in", "012">>>>),
                          SeqOf(<<Lit("0"), <<"in", "123456789">>>>),
                          <<"in", "123456789">>>>)
      [] c = "y" -> Rep("\\d", 2, 2)
      [] c = "Y" -> Rep("\\d", 4, 4)

RECURSIVE FormatParts(_)
\* the pattern strptime compiles a format into: a group per directive
FormatParts(fmt) ==
    IF fmt = "" THEN <<>>
    ELSE IF CharAt(fmt, 1) = "%"
         THEN <<G(DirectiveRe(CharAt(fmt, 2)))>> \o FormatParts(SubSeq(fmt, 3, Len(fmt)))
         ELSE <<N(Lit(CharAt(fmt, 1)))>> \o FormatParts(SubSeq(fmt, 2, Len(fmt)))

RECURSIVE FormatDirectives(_)
FormatDirectives(fmt) ==
    IF fmt = "" THEN <<>>
    ELSE IF CharAt(fmt, 1) = "%"
         THEN <<CharAt(fmt, 2)>> \o FormatDirectives(SubSeq(fmt, 3, Len(fmt)))
         ELSE FormatDirectives(SubSeq(fmt, 2, Len(fmt)))

IsLeap(y) == y % 4 = 0 /\ (y % 100 # 0 \/ y % 400 = 0)

DaysInMonth(y, m) ==
    IF m = 2 THEN (IF IsLeap(y) THEN 29 ELSE 28)
    ELSE IF m \in {4, 6, 9, 11} THEN 30 ELSE 31

MINYEAR == 1

MAXYEAR == 9999

\* datetime(year, month, day) raises ValueError unless this holds
ValidDate(y, m, d) ==
    /\ y >= MINYEAR /\ y <= MAXYEAR
    /\ m >= 1 /\ m <= 12
    /\ d >= 1 /\ d <= DaysInMonth(y, m)

\* the pivot of %y: 00..68 are 2000..2068, 69..99 are 1969..1999
PivotYear == 68

\* `a` unless it is empty, and then `b`
OrElse(a, b) == IF a # <<>> THEN a ELSE b

\* datetime(year, month, day): <<[year, month, day]>>, or <<>> for ValueError
MakeDate(year, month, day) ==
    IF ValidDate(year, month, day) THEN <<[year |-> year, month |-> month, day |-> day]>>
    ELSE <<>>

\* the number the directive c of the directives ds found, in the groups gs
DirectiveValue(ds, gs, c) == ToInt(Strip(gs[CHOOSE k \in 1..Len(ds) : ds[k] = c]))

\* the year of %y
Pivot(yy) == IF yy <= PivotYear THEN yy + 2000 ELSE yy + 1900

YearValue(ds, gs) ==
    IF \E k \in 1..Len(ds) : ds[k] = "y" THEN Pivot(DirectiveValue(ds, gs, "y"))
    ELSE DirectiveValue(ds, gs, "Y")

\* the date of the groups gs of the directives ds
DateOf(ds, gs) ==
    MakeDate(YearValue(ds, gs), DirectiveValue(ds, gs, "m"), DirectiveValue(ds, gs, "d"))

\* what strptime makes of the match m of its pattern at the start of s
Converted(s, parts, ds, m) ==
    IF m = NoMatch THEN <<>>
    ELSE IF m[Len(m)] # Len(s) + 1 THEN <<>>  \* unconverted data remains
    ELSE DateOf(ds, Groups([parts |-> parts, icase |-> TRUE], s,
                           [start |-> 1, ends |-> Tail(m)]))

StrptimeWith(s, parts, ds) == Converted(s, parts, ds, MatchParts(parts, 1, LowerStr(s), 1))

\* datetime.strptime(s, fmt): <<[year, month, day]>>, or <<>> for ValueError
strptime(s, fmt) == StrptimeWith(s, FormatParts(fmt), FormatDirectives(fmt))

RECURSIVE ZeroPad(_, _)
ZeroPad(s, n) == IF Len(s) >= n THEN s ELSE ZeroPad("0" \o s, n)

\* dt.strftime("%d/%m/%Y").  The C library decides whether %Y pads a year
\* below 1000 to four digits (pad = TRUE) or not (glibc).
strftime(dt, pad) ==
    ZeroPad(ToString(dt.day), 2) \o "/" \o ZeroPad(ToString(dt.month), 2) \o "/"
        \o (IF pad THEN ZeroPad(ToString(dt.year), 4) ELSE ToString(dt.year))

\* `return dt.strftime("%d/%m/%Y")` where dt was made, <<>> where it raised
Rendered(dt, pad) == IF dt # <<>> THEN <<strftime(dt[1], pad)>> ELSE <<>>

\* (\d{1,2})/(\d{1,2})/(\d{2,4})
LooseDate ==
    Compile(<<G(Rep("\\d", 1, 2)), N(Lit("/")), G(Rep("\\d", 1, 2)), N(Lit("/")),
              G(Rep("\\d", 2, 4))>>, {})

RECURSIVE TryFormats(_, _, _)
\* the loop over DATE_FORMATS_IN: the first format that parses, or <<>>
TryFormats(raw_clean, fmts, pad) ==
    IF fmts = <<>> THEN <<>>
    ELSE OrElse(Rendered(strptime(raw_clean, Head(fmts)), pad),
                TryFormats(raw_clean, Tail(fmts), pad))

\* `if len(year) == 2: year = "20" + year`
LooseYear(year) == IF Len(year) = 2 THEN "20" \o year ELSE year

\* the date of the groups day, month, year
LooseDateOf(gs, pad) ==
    Rendered(MakeDate(ToInt(LooseYear(gs[3])), ToInt(gs[2]), ToInt(gs[1])), pad)

LooseMatch(raw_clean, m, pad) ==
    IF m = NoMatch THEN <<>> ELSE LooseDateOf(Groups(LooseDate, raw_clean, m[1]), pad)

\* the last-resort regex extraction: a rendered date, or <<>>
LooseParse(raw_clean, pad) == LooseMatch(raw_clean, Search(LooseDate, raw_clean), pad)

\* parse_date from raw_clean on
ParseClean(raw_clean, pad) ==
    OrElse(TryFormats(raw_clean, DATE_FORMATS_IN, pad),
           OrElse(LooseParse(raw_clean, pad), Some(raw_clean)))

\* parse_date(raw) on a platform whose strftime pads years as pad says
parse_date(raw, pad) ==
    IF ~Truthy(raw) THEN None ELSE ParseClean(ReplaceChar(Strip(raw[1]), "-", "/"), pad)

\* ------------------------------------------------------------------------
\* compute_risk_rating
\* ------------------------------------------------------------------------
cons_map ==
    ("insignificant" :> 1) @@ ("minor" :> 2) @@ ("moderate" :> 3) @@ ("major" :> 4)
        @@ ("severe" :> 5)

lik_map ==
    ("rare" :> 1) @@ ("unlikely" :> 2) @@ ("possible" :> 3) @@ ("likely" :> 4)
        @@ ("almost certain" :> 5)

\* dict.get(key): <<value>> or None
DictGet(map, key) == IF key \in DOMAIN map THEN <<map[key]>> ELSE None

\* the bands with each limit one too low
RatingLabelBelow(score) ==
    IF score < 4 THEN "Low"
    ELSE IF score < 9 THEN "Medium"
    ELSE IF score < 16 THEN "High"
    ELSE "Extreme"

RatingLabel(score) ==
    IF score <= 4 THEN "Low"
    ELSE IF score <= 9 THEN "Medium"
    ELSE IF score <= 16 THEN "High"
    ELSE "Extreme"

\* the rating of the ordinals c and l, each <<n>> or None
Rate(c, l) ==
    IF c = None \/ l = None THEN None
    ELSE Some(RatingLabel(c[1] * l[1]) \o " (" \o ToString(c[1] * l[1]) \o ")")

compute_risk_rating(consequence, likelihood) ==
    IF ~Truthy(consequence) \/ ~Truthy(likelihood) THEN None
    ELSE Rate(DictGet(cons_map, LowerStr(Strip(consequence[1]))),
              DictGet(lik_map, LowerStr(Strip(likelihood[1]))))

\* ------------------------------------------------------------------------
\* ParsedRecord
\* ------------------------------------------------------------------------
\* ParsedRecord(): every field None, sds_available "Yes"
ParsedRecord ==
    [product_name |-> None, vendor |-> None, quantity |-> None, location |-> None,
     cas_number |-> None, sds_available |-> "Yes", issue_date |-> None,
     hazardous_substance |-> None, dangerous_good |-> None,
     dangerous_goods_class |-> None, description |-> None, packing_group |-> None,
     subsidiary_risks |-> None, consequence |-> None, likelihood |-> None,
     risk_rating |-> None, swp_requirement |-> None, comments_swp |-> None,
     barcode |-> None]

REGISTER_HEADERS ==
    <<"Product Name", "Vendor / Manufacturer", "Quantity", "Location", "CAS Number",
      "SDS Available", "Issue Date (DD/MM/YYYY)", "Hazardous Substance", "Dangerous Good",
      "Dangerous Goods Class", "Description", "Packing group", "Subsidiary Risk(s)",
      "Consequence", "Likelihood", "Risk Rating", "Safe Work Procedure (SWP) Requirement",
      "Comments/SWP", "Barcode">>

to_csv_row(self) ==
    <<OrEmpty(self.product_name), OrEmpty(self.vendor), OrEmpty(self.quantity),
      OrEmpty(self.location), OrEmpty(self.cas_number), self.sds_available,
      OrEmpty(self.issue_date), OrEmpty(self.hazardous_substance),
      OrEmpty(self.dangerous_good), OrEmpty(self.dangerous_goods_class),
      OrEmpty(self.description), OrEmpty(self.packing_group),
      OrEmpty(self.subsidiary_risks), OrEmpty(self.consequence), OrEmpty(self.likelihood),
      OrEmpty(self.risk_rating), OrEmpty(self.swp_requirement),
      OrEmpty(self.comments_swp), OrEmpty(self.barcode)>>

\* ------------------------------------------------------------------------
\* extract_description
\* ------------------------------------------------------------------------
RECURSIVE SplitLines(_)
\* the line of s that ends before position j, and the lines after it
SplitAt(s, j) == <<SubSeq(s, 1, j - 1)>> \o SplitLines(SubSeq(s, j + 1, Len(s)))

\* s.splitlines(); an empty line may stand where Python has none ("\r\n"),
\* and StrippedLines drops the empty ones
SplitLines(s) == IF s = "" THEN <<>> ELSE SplitAt(s, FirstNot(s, "\\nobreak", 1, Len(s)))

RECURSIVE StripAll(_)
StripAll(ls) == IF ls = <<>> THEN <<>> ELSE <<Strip(Head(ls))>> \o StripAll(Tail(ls))

\* [l.strip() for l in block.splitlines() if l.strip()]
StrippedLines(block) == SelectSeq(StripAll(SplitLines(block)), NonEmpty)

\* \bH\d{3}\b
HazardCode == Compile(<<N(SeqOf(<<Wb, Lit("H"), Rep("\\d", 3, 3), Wb>>))>>, {})

\* (Danger|Warning)\b
SignalWord == Compile(<<G(Alt(<<Lit("Danger"), Lit("Warning")>>)), N(Wb)>>, {})

IsHazardLine(l) == Search(HazardCode, l) # NoMatch \/ Search(SignalWord, l) # NoMatch

RECURSIVE Dedupe(_, _)
\* the lines of ls not in seen, each once, in first-seen order
Dedupe(ls, seen) ==
    IF ls = <<>> THEN <<>>
    ELSE IF Head(ls) \in seen THEN Dedupe(Tail(ls), seen)
         ELSE <<Head(ls)>> \o Dedupe(Tail(ls), seen \cup {Head(ls)})

RECURSIVE Join(_, _)
\* sep.join(ls)
Join(ls, sep) ==
    IF ls = <<>> THEN ""
    ELSE IF Len(ls) = 1 THEN ls[1] ELSE ls[1] \o sep \o Join(Tail(ls), sep)

\* \s*;\s*
SemiRe == Compile(<<N(SeqOf(<<Rep("\\s", 0, -1), Lit(";"), Rep("\\s", 0, -1)>>))>>, {})

\* (; ){2,}
SemiRun == Compile(<<G(SeqOf(<<Lit("; "), Lit("; "), <<"star", Lit("; ")>>>>))>>, {})

\* the lines with a hazard code or a signal word, or else the first three
Selected(lines, hazard) ==
    IF hazard = <<>> THEN SubSeq(lines, 1, IF Len(lines) < 3 THEN Len(lines) ELSE 3)
    ELSE hazard

SelectLines(lines) == Selected(lines, SelectSeq(lines, IsHazardLine))

\* s[:n]
Truncate(s, n) == SubSeq(s, 1, IF Len(s) < n THEN Len(s) ELSE n)

\* extract_description from the block found on
Describe(section2_block) ==
    IF ~Truthy(section2_block) THEN None
    ELSE Some(ReSub(SemiRun, "; ",
              ReSub(SemiRe, "; ",
                    Truncate(Join(Dedupe(SelectLines(StrippedLines(section2_block[1])), {}),
                                  "; "),
                             DescriptionLimit))))

extract_description(text) == Describe(find_first(PATTERNS.description_section2, text))

\* ------------------------------------------------------------------------
\* infer_flags and extract_fields
\* ------------------------------------------------------------------------
NotHazardousRe == Compile(<<N(Lit("Not classified as Hazardous"))>>, {"I"})

HazardousRe ==
    Compile(<<N(Alt(<<Lit("Classified as Hazardous"), Lit("Hazardous according to")>>))>>,
            {"I"})

NotDangerousRe == Compile(<<N(Lit("Not classified as Dangerous Goods"))>>, {"I"})

DangerousRe ==
    Compile(<<N(Alt(<<Lit("Classified as Dangerous Goods"),
                      Lit("Dangerous Goods according to")>>))>>, {"I"})

\* Packing\s+Group\s*(I{1,3}|II|III)\b
InferPackingRe ==
    Compile(<<N(SeqOf(<<Lit("Packing"), Rep("\\s", 1, -1), Lit("Group"),
                        Rep("\\s", 0, -1)>>)),
              RomanGroup, N(Wb)>>, {"I"})

\* the value infer_flags leaves in record.hazardous_substance
InferHazardous(record, text_norm) ==
    IF Truthy(record.hazardous_substance) THEN record.hazardous_substance
    ELSE IF Search(NotHazardousRe, text_norm) # NoMatch THEN Some("No")
    ELSE IF Search(HazardousRe, text_norm) # NoMatch THEN Some("Yes")
    ELSE record.hazardous_substance

\* the inference without `if not record.dangerous_good`
InferDangerousOverwriting(record, text_norm) ==
    IF Search(NotDangerousRe, text_norm) # NoMatch THEN Some("No")
    ELSE IF Search(DangerousRe, text_norm) # NoMatch \/ Truthy(record.dangerous_goods_class)
         THEN Some("Yes")
    ELSE record.dangerous_good

\* the value infer_flags leaves in record.dangerous_good
InferDangerous(record, text_norm) ==
    IF Truthy(record.dangerous_good) THEN record.dangerous_good
    ELSE IF Search(NotDangerousRe, text_norm) # NoMatch THEN Some("No")
    ELSE IF Search(DangerousRe, text_norm) # NoMatch \/ Truthy(record.dangerous_goods_class)
         THEN Some("Yes")
    ELSE record.dangerous_good

\* `m.group(1).upper()` where the search gave a match m
InferredPacking(record, text_norm, m) ==
    IF m # NoMatch THEN Some(UpperStr(Groups(InferPackingRe, text_norm, m[1])[1]))
    ELSE record.packing_group

\* the value infer_flags leaves in record.packing_group
InferPacking(record, text_norm) ==
    IF Truthy(record.packing_group) THEN record.packing_group
    ELSE InferredPacking(record, text_norm, Search(InferPackingRe, text_norm))

\* the record as infer_flags(record, text_norm) leaves it
infer_flags(record, text_norm) ==
    [record EXCEPT !.hazardous_substance = InferHazardous(record, text_norm),
                   !.dangerous_good = InferDangerous(record, text_norm),
                   !.packing_group = InferPacking(record, text_norm)]

Ification == Compile(<<N(Lit("ification"))>>, {})

\* the dangerous_goods_class extract_fields keeps: the capture, unless it
\* contains "ification"
ClassGuard(cls) ==
    IF Truthy(cls) /\ Search(Ification, LowerStr(cls[1])) # NoMatch THEN None ELSE cls

\* the record extract_fields holds when it calls infer_flags
DirectPass(text_norm, pad) ==
    [ParsedRecord EXCEPT
        !.product_name = find_first(PATTERNS.product_name, text_norm),
        !.vendor = find_first(PATTERNS.vendor, text_norm),
        !.quantity = None,
        !.location = None,
        !.cas_number = find_first(PATTERNS.cas_number, text_norm),
        !.issue_date = parse_date(find_first(PATTERNS.issue_date, text_norm), pad),
        !.hazardous_substance = find_first(PATTERNS.hazardous_substance, text_norm),
        !.dangerous_good = find_first(PATTERNS.dangerous_good, text_norm),
        !.dangerous_goods_class =
            ClassGuard(find_first(PATTERNS.dangerous_goods_class, text_norm)),
        !.packing_group = find_first(PATTERNS.packing_group, text_norm),
        !.subsidiary_risks = find_first(PATTERNS.subsidiary_risks, text_norm),
        !.description = extract_description(text_norm)]

\* `record.risk_rating = compute_risk_rating(record.consequence, record.likelihood)`
WithRisk(record) ==
    [record EXCEPT !.risk_rating = compute_risk_rating(record.consequence, record.likelihood)]

\* extract_fields from text_norm on
ExtractNorm(text_norm, pad) == WithRisk(infer_flags(DirectPass(text_norm, pad), text_norm))

\* extract_fields(text) on a platform whose strftime pads years as pad says
extract_fields(text, pad) == ExtractNorm(normalize_whitespace(text), pad)

\* ------------------------------------------------------------------------
\* The csv module, excel dialect: what csv.writer(f).writerow writes and what
\* csv.reader / csv.DictReader read back
\* ------------------------------------------------------------------------
Contains(s, chars) == \E k \in 1..Len(s) : CharAt(s, k) \in chars

\* QUOTE_MINIMAL with doublequote
QuoteField(f) ==
    IF Contains(f, {",", "\"", "\n", "\r"})
    THEN "\"" \o ReplaceChar(f, "\"", "\"\"") \o "\""
    ELSE f

RECURSIVE QuoteAll(_)
QuoteAll(row) == IF row = <<>> THEN <<>> ELSE <<QuoteField(Head(row))>> \o QuoteAll(Tail(row))

\* the line writerow(row) writes
WriteRow(row) ==
    (IF row = <<"">> THEN "\"\"" ELSE Join(QuoteAll(row), ",")) \o "\r\n"

\* the field r with prefix before its value
PrependVal(prefix, r) == [val |-> prefix \o r.val, next |-> r.next]

RECURSIVE QuotedEnd(_, _)
\* a quoted field from position p on, whose next quote is at position j
QuotedFrom(s, p, j) ==
    IF j > Len(s) THEN [val |-> SubSeq(s, p, Len(s)), next |-> Len(s) + 1]
    ELSE IF j < Len(s) /\ CharAt(s, j + 1) = "\""
         THEN PrependVal(SubSeq(s, p, j), QuotedEnd(s, j + 2))
         ELSE [val |-> SubSeq(s, p, j - 1), next |-> j + 1]

\* a quoted field read from position p, just after its opening quote: the
\* value, and the position after the closing quote
QuotedEnd(s, p) == QuotedFrom(s, p, FirstNot(s, "\\noquote", p, Len(s)))

\* the characters of s from position p to the one before position e
FieldTo(s, p, e) == [val |-> SubSeq(s, p, e - 1), next |-> e]

\* the characters from position p to the end of the field
PlainFrom(s, p) == FieldTo(s, p, FirstNot(s, "\\plain", p, Len(s)))

\* the field whose quoted part is q: the characters after the closing quote
\* belong to it
AfterQuoted(s, q) == PrependVal(q.val, PlainFrom(s, q.next))

\* the field that starts at position p: its value, and where it ends
ReadField(s, p) ==
    IF p <= Len(s) /\ CharAt(s, p) = "\"" THEN AfterQuoted(s, QuotedEnd(s, p + 1))
    ELSE PlainFrom(s, p)

\* the fields r with the field f before them
PrependField(f, r) == [vals |-> <<f.val>> \o r.vals, next |-> r.next]

RECURSIVE ReadFields(_, _)
\* the fields of a record whose first field is f
FieldsFrom(s, f) ==
    IF f.next <= Len(s) /\ CharAt(s, f.next) = ","
    THEN PrependField(f, ReadFields(s, f.next + 1))
    ELSE [vals |-> <<f.val>>, next |-> f.next]

\* the fields of the record that starts at position p, and where it ends
ReadFields(s, p) == FieldsFrom(s, ReadField(s, p))

\* the position after the line terminator at position e
AfterNewline(s, e) ==
    IF e < Len(s) /\ CharAt(s, e) = "\r" /\ CharAt(s, e + 1) = "\n" THEN e + 2 ELSE e + 1

RECURSIVE ReadRows(_, _)
\* the row r and the rows after it
RowsFrom(s, r) == <<r.vals>> \o ReadRows(s, AfterNewline(s, r.next))

\* list(csv.reader(f)) from position p on; an empty line reads as the row <<>>
ReadRows(s, p) ==
    IF p > Len(s) THEN <<>>
    ELSE IF CharAt(s, p) \in {"\r", "\n"} THEN <<<<>>>> \o ReadRows(s, AfterNewline(s, p))
    ELSE RowsFrom(s, ReadFields(s, p))

NotBlank(row) == row # <<>>

\* csv.DictReader over the rows read: the first row gives the field names,
\* and the later rows that are not blank are the data rows
DictRows(rows) ==
    IF rows = <<>> THEN [fieldnames |-> <<>>, rows |-> <<>>]
    ELSE [fieldnames |-> rows[1], rows |-> SelectSeq(Tail(rows), NotBlank)]

\* csv.DictReader(f) for a file of content s
DictReader(s) == DictRows(ReadRows(s, 1))

FieldNames(s) == DictReader(s).fieldnames

DataRows(s) == DictReader(s).rows

\* row.get(key) of the dict DictReader builds for a data row: None where the
\* row is too short or no field has that name; the last field of that name wins
RowGet(fieldnames, row, key) ==
    LET ks == {k \in 1..Len(fieldnames) : fieldnames[k] = key}
    IN  IF ks = {} THEN None
        ELSE LET k == CHOOSE k \in ks : \A j \in ks : j <= k
             IN  IF k <= Len(row) THEN Some(row[k]) ELSE None

\* ------------------------------------------------------------------------
\* State
\* ------------------------------------------------------------------------
VARIABLES
    exists,     \* os.path.isfile(path): whether the destination file is there
    content,    \* the characters of the destination file
    logged,     \* what the last call handed to logger.info
    impl,       \* the module whose store is run: "sds_parser" or "register"
    call,       \* the call made last: <<name, argument, ...>>, <<>> before any
    before,     \* exists and content as they were when that call was made
    result,     \* what that call returned or raised
    pad,        \* whether the platform's strftime pads a year below 1000
    procs,      \* each concurrent caller of append_record_to_csv: where it is in the call
    appends     \* the records handed to append_record_to_csv so far, in order

vars == <<exists, content, logged, impl, call, before, result, pad, procs, appends>>

NoCall == <<>>

\* the concurrent callers of append_record_to_csv
Procs == {"p", "q"}

\* a caller that has not called yet
Idle == [pc |-> "idle", record |-> None, file_exists |-> FALSE, overlapped |-> FALSE]

\* no caller has called yet
NoProcs == [p \in Procs |-> Idle]

\* ------------------------------------------------------------------------
\* The register store
\* ------------------------------------------------------------------------
\* register.py's REGISTER_HEADERS
RegisterHeaders ==
    <<"Product Name", "Vendor / Manufacturer", "Quantity", "Location", "CAS Number",
      "Last Revision", "Barcode">>

\* register.py's ParsedRecord.to_csv_row
register_to_csv_row(self) ==
    <<self.product_name, self.vendor, self.quantity, self.location, self.cas_number,
      self.last_revision, self.barcode>>

\* the comparison without `record.barcode and`
IsDuplicateUnguarded(barcode, fieldnames, row) == RowGet(fieldnames, row, "Barcode") = barcode

\* `record.barcode and row.get("Barcode") == record.barcode`
IsDuplicate(barcode, fieldnames, row) ==
    Truthy(barcode) /\ RowGet(fieldnames, row, "Barcode") = barcode

\* a scan that looks at the last data row only
LastRowDuplicate(barcode, reader) ==
    /\ reader.rows # <<>>
    /\ IsDuplicate(barcode, reader.fieldnames, reader.rows[Len(reader.rows)])

\* whether the loop over the reader's rows finds a duplicate and returns
AnyDuplicate(barcode, reader) ==
    \E k \in 1..Len(reader.rows) : IsDuplicate(barcode, reader.fieldnames, reader.rows[k])

\* a scan that gives up after the first data row
FirstRowDuplicate(barcode, s) ==
    /\ DictReader(s).rows # <<>>
    /\ IsDuplicate(barcode, DictReader(s).fieldnames, DictReader(s).rows[1])

\* whether the scan of the file of content s finds a duplicate
HasDuplicate(barcode, s) == AnyDuplicate(barcode, DictReader(s))

\* the header written on every append
AlwaysHeader(headers, file_exists) == WriteRow(headers)

\* `if not file_exists: writer.writerow(REGISTER_HEADERS)`
HeaderLines(headers, file_exists) == IF ~file_exists THEN WriteRow(headers) ELSE ""

\* The destination file and the log are handed from call to call as a record
\* [exists, content, logged].
\*
\* the body the two modules share: the existence check, the scan, the write
AppendRow(store, headers, new_row, barcode) ==
    IF store.exists /\ HasDuplicate(barcode, store.content)
    THEN [store EXCEPT !.logged = <<"Skipping duplicate based on barcode %s", barcode>>]
    ELSE [exists |-> TRUE,
          content |-> store.content \o HeaderLines(headers, store.exists) \o WriteRow(new_row),
          logged |-> <<"Appended record for barcode %s", barcode>>]

\* sds_parser.append_record_to_csv(record)
append_record_to_csv(record, store) ==
    AppendRow(store, REGISTER_HEADERS, to_csv_row(record), record.barcode)

\* register.append_record_to_csv(record)
register_append_record_to_csv(record, store) ==
    AppendRow(store, RegisterHeaders, register_to_csv_row(record), Some(record.barcode))

\* what a call leaves: the store, and what it returns or raises
Outcome(store, res) == [store |-> store, result |-> res]

\* raise HTTPException(status_code=status)
HTTPException(status) == <<"HTTPException", status>>

\* parse_sds from the record extracted on
ParseRecord(record, store) ==
    IF ~(Truthy(record.product_name) \/ Truthy(record.vendor))
    THEN Outcome(store, HTTPException(422))
    ELSE Outcome(append_record_to_csv(record, store), <<"ParseResponse", to_csv_row(record)>>)

\* parse_sds(file).  An upload is [pdf, big, text]: whether its name ends in
\* ".pdf", whether it has 1000 bytes or more, and the text
\* extract_text_from_pdf makes of it (None: it raises).
parse_sds(file, store) ==
    IF ~file.pdf THEN Outcome(store, HTTPException(400))
    ELSE IF ~file.big THEN Outcome(store, HTTPException(400))
    ELSE IF file.text = None THEN Outcome(store, HTTPException(500))
    ELSE IF Strip(file.text[1]) = "" THEN Outcome(store, HTTPException(422))
    ELSE ParseRecord(extract_fields(file.text[1], pad), store)

\* `rec.barcode = args.barcode` and the append
AppendWithBarcode(rec, barcode, store) ==
    append_record_to_csv([rec EXCEPT !.barcode = barcode], store)

RECURSIVE MainLoop(_, _, _)
\* the loop over args.pdfs, each given as the text extracted from it
MainLoop(pdfs, barcode, store) ==
    IF pdfs = <<>> THEN store
    ELSE MainLoop(Tail(pdfs), barcode,
                  AppendWithBarcode(extract_fields(Head(pdfs), pad), barcode, store))

\* the command line entry point, without --json-out
main(args, store) == Outcome(MainLoop(args.pdfs, args.barcode, store), None)

\* ------------------------------------------------------------------------
\* The calls
\* ------------------------------------------------------------------------
\* the destination file and the log as the state holds them
Store == [exists |-> exists, content |-> content, logged |-> logged]

\* no destination file, and no call made yet
NoStore ==
    /\ exists = FALSE
    /\ content = ""
    /\ logged = <<>>
    /\ before = [exists |-> FALSE, content |-> ""]
    /\ procs = NoProcs
    /\ appends = <<>>

\* the call made, and the store as it finds it
Remember(c) ==
    /\ call' = c
    /\ before' = [exists |-> exists, content |-> content]

\* the store as a call leaves it
Leave(store) ==
    /\ exists' = store.exists
    /\ content' = store.content
    /\ logged' = store.logged

Finish(outcome) == Leave(outcome.store) /\ result' = outcome.result

\* the most data rows the store grows to
MaxRows == 3

StoreBarcodes == {"", "A1", "a1", "B,\"2"}

\* the records appended: with and without a barcode, barcodes that differ in
\* case only, a barcode the writer has to quote, and records that differ in
\* another field only
StoreRecords ==
    {[ParsedRecord EXCEPT !.product_name = p, !.barcode = b] :
        p \in {None, Some("X")},
        b \in {None} \cup {Some(x) : x \in StoreBarcodes}}

RegisterRecords ==
    {[product_name |-> "X", vendor |-> "", quantity |-> "", location |-> "",
      cas_number |-> "", last_revision |-> "", barcode |-> b] : b \in StoreBarcodes}

InitStore ==
    /\ NoStore
    /\ impl \in {"sds_parser", "register"}
    /\ call = NoCall
    /\ result = None
    /\ pad = FALSE

\* one call of sds_parser.append_record_to_csv
AppendCall ==
    /\ impl = "sds_parser"
    /\ Len(DataRows(content)) < MaxRows
    /\ \E r \in StoreRecords :
          /\ Remember(<<"append_record_to_csv", r.barcode, to_csv_row(r)>>)
          /\ Leave(append_record_to_csv(r, Store))
    /\ result' = None
    /\ UNCHANGED <<impl, pad, procs, appends>>

\* one call of register.append_record_to_csv
RegisterAppendCall ==
    /\ impl = "register"
    /\ Len(DataRows(content)) < MaxRows
    /\ \E r \in RegisterRecords :
          /\ Remember(<<"append_record_to_csv", Some(r.barcode), register_to_csv_row(r)>>)
          /\ Leave(register_append_record_to_csv(r, Store))
    /\ result' = None
    /\ UNCHANGED <<impl, pad, procs, appends>>

Next == AppendCall \/ RegisterAppendCall

Spec == InitStore /\ [][Next]_vars

\* ------------------------------------------------------------------------
\* Properties of the register store
\* ------------------------------------------------------------------------
\* the barcode of the record of the last call, and the row it flattens to
CallBarcode == call[2]

CallRow == call[3]

Appended == call # NoCall /\ call[1] = "append_record_to_csv"

\* the Barcode column of the k-th data row of a reader
BarcodeAt(reader, k) == RowGet(reader.fieldnames, reader.rows[k], "Barcode")

\* some data row of the reader has the call's barcode, which is not empty
SeenIn(reader) ==
    /\ CallBarcode # None
    /\ CallBarcode[1] # ""
    /\ \E k \in 1..Len(reader.rows) : BarcodeAt(reader, k) = CallBarcode

\* some data row of the store the call found has the call's barcode
SeenBefore == before.exists /\ SeenIn(DictReader(before.content))

\* C1: a call that finds the destination present with a data row whose
\* Barcode column is exactly the record's non-empty barcode returns
\* normally and leaves the store as it was: same header, same data rows in
\* the same order.
C1_DuplicateSkip ==
    (Appended /\ SeenBefore) =>
        /\ result = None
        /\ exists
        /\ content = before.content
        /\ DictReader(content) = DictReader(before.content)
        /\ logged[1] = "Skipping duplicate based on barcode %s"

\* a skip of a record whose barcode is in the second of two data rows, after
\* a row with another barcode
C1_Witness ==
    /\ Appended /\ SeenBefore
    /\ Len(DataRows(content)) = 2
    /\ BarcodeAt(DictReader(before.content), 1) # CallBarcode
    /\ BarcodeAt(DictReader(before.content), 2) = CallBarcode
    /\ content = before.content

\* the reader new has the header and the rows of the reader old, and the row
\* of the call after them
OneMore(old, new) ==
    /\ new.fieldnames = old.fieldnames
    /\ new.rows = old.rows \o <<CallRow>>
    /\ Len(new.rows) = Len(old.rows) + 1

\* C2: a call with a record whose barcode is unset or empty, or differs
\* from the Barcode of every data row, adds one data row, the record's, as
\* the last row and leaves the header and the earlier rows as they were.
C2_NonDuplicateAppend ==
    (Appended /\ before.exists /\ ~SeenBefore) =>
        /\ result = None
        /\ OneMore(DictReader(before.content), DictReader(content))

\* a record without a barcode appended to a store that holds the same row
\* already
C2_Witness ==
    /\ Appended /\ before.exists /\ ~SeenBefore
    /\ ~Truthy(CallBarcode)
    /\ \E k \in 1..Len(DataRows(before.content)) : DataRows(before.content)[k] = CallRow
    /\ Len(DataRows(content)) = Len(DataRows(before.content)) + 1

RECURSIVE HeaderRows(_, _)
\* how many of the rows are the header row
HeaderRows(rows, headers) ==
    IF rows = <<>> THEN 0
    ELSE (IF Head(rows) = headers THEN 1 ELSE 0) + HeaderRows(Tail(rows), headers)

\* the header row is the first of the rows and no other, and every row has
\* 19 values
OneHeader(rows) ==
    /\ rows[1] = REGISTER_HEADERS
    /\ HeaderRows(rows, REGISTER_HEADERS) = 1
    /\ \A k \in 1..Len(rows) : Len(rows[k]) = 19

\* C3: the first append to a destination that is not there creates it with
\* the 19-column header row and one data row of 19 values; an append to a
\* destination that is there writes no header row; so the store holds one
\* header row, and it is its first row.
C3_LazyHeader ==
    (Appended /\ impl = "sds_parser") =>
        /\ ~before.exists =>
              /\ exists
              /\ ReadRows(content, 1) = <<REGISTER_HEADERS, CallRow>>
        /\ before.exists =>
              \/ content = before.content
              \/ content = before.content \o WriteRow(CallRow)
        /\ OneHeader(ReadRows(content, 1))

\* the third row appended to the store: the header is still its first row only
C3_Witness ==
    /\ Appended /\ impl = "sds_parser"
    /\ before.exists
    /\ content # before.content
    /\ Len(DataRows(content)) = 3
    /\ HeaderRows(ReadRows(content, 1), REGISTER_HEADERS) = 1

\* ------------------------------------------------------------------------
\* extract_fields on texts made of lines
\* ------------------------------------------------------------------------
\* the most lines of a text
MaxFrags == 2

RECURSIVE TextsOf(_, _)
\* the texts of at most n lines, each one of frags
TextsOf(frags, n) ==
    IF n = 0 THEN {""}
    ELSE TextsOf(frags, n - 1) \cup {f \o "\n" \o t : f \in frags, t \in TextsOf(frags, n - 1)}

\* lines that state a flag directly, in the case of the patterns and in
\* another, and lines the inference pass reads
ExtractFrags ==
    {"Hazardous Substance: Yes", "Hazardous Substance: no", "Dangerous Goods: No",
     "Packing Group: II", "Packing Group iii", "Not classified as Hazardous",
     "Classified as Dangerous Goods", "Class 3"}

ExtractTexts == TextsOf(ExtractFrags, MaxFrags)

\* nothing called yet, on either kind of platform
InitCall ==
    /\ NoStore
    /\ impl = "sds_parser"
    /\ call = NoCall
    /\ result = None
    /\ pad \in BOOLEAN

\* extract_fields(text) for one of texts
ExtractFields(texts) ==
    /\ \E text \in texts :
          /\ Remember(<<"extract_fields", text>>)
          /\ result' = Some(extract_fields(text, pad))
    /\ UNCHANGED <<exists, content, logged, impl, pad, procs, appends>>

ExtractCall == call = NoCall /\ ExtractFields(ExtractTexts)

NextExtract == ExtractCall

SpecExtract == InitCall /\ [][NextExtract]_vars

Extracted == call # NoCall /\ call[1] = "extract_fields"

\* the fields infer_flags assigns
InferredFields == {"hazardous_substance", "dangerous_good", "packing_group"}

\* the record returned keeps each of the three fields the direct pass set
KeepsDirect(direct, record) ==
    \A f \in InferredFields : direct[f] # None => record[f] = direct[f]

\* infer_flags leaves every other field of the record direct as it is
OthersUntouched(direct, inferred) ==
    \A f \in (DOMAIN direct) \ InferredFields : inferred[f] = direct[f]

\* C4: the record extract_fields returns has each of hazardous_substance,
\* dangerous_good and packing_group as the direct pattern pass set it,
\* wherever that pass set it, whatever the inference pass finds in the text;
\* and the inference pass changes no other field.
C4_InferenceKeepsDirect ==
    Extracted =>
        /\ KeepsDirect(DirectPass(normalize_whitespace(call[2]), pad), result[1])
        /\ OthersUntouched(DirectPass(normalize_whitespace(call[2]), pad),
                           infer_flags(DirectPass(normalize_whitespace(call[2]), pad),
                                       normalize_whitespace(call[2])))

\* a text that states "Dangerous Goods: No" and has a class as well, which
\* the inference would read as "Yes", and that is not classified as
\* hazardous, which the inference does fill in
C4_Witness ==
    /\ Extracted
    /\ DirectPass(normalize_whitespace(call[2]), pad).dangerous_good = Some("No")
    /\ DirectPass(normalize_whitespace(call[2]), pad).dangerous_goods_class # None
    /\ result[1].dangerous_good = Some("No")
    /\ result[1].dangerous_goods_class = Some("3")

\* C7: the record extract_fields returns has hazardous_substance and
\* dangerous_good among "Yes", "No" and unset, and packing_group among "I",
\* "II", "III" and unset, in exactly that letter case.
C7_EnumeratedDomain ==
    Extracted =>
        /\ result[1].hazardous_substance \in {None, Some("Yes"), Some("No")}
        /\ result[1].dangerous_good \in {None, Some("Yes"), Some("No")}
        /\ result[1].packing_group \in {None, Some("I"), Some("II"), Some("III")}

\* ------------------------------------------------------------------------
\* find_first on rule lists and texts
\* ------------------------------------------------------------------------
\* lines the vendor, product name, issue date and description rules match,
\* with colons, semicolons and blanks after the value
FindFrags ==
    {"Supplier: Acme ;:", "Company Name - B Co", "Manufacturer/Supplier:: C",
     "Trade Name: T ", "Revision: 1/2/23", "Section 2", "H225 Danger;"}

FindTexts == TextsOf(FindFrags, MaxFrags)

\* rule lists of the program, the empty list, and lists whose rules have no
\* capturing group
FindRules ==
    {<<>>, PATTERNS.vendor, PATTERNS.product_name, PATTERNS.issue_date,
     PATTERNS.description_section2, <<HazardCode>>, <<HazardCode, SignalWord>>}

FindCall ==
    /\ call = NoCall
    /\ \E rules \in FindRules, text \in FindTexts :
          /\ Remember(<<"find_first", rules, text>>)
          /\ result' = find_first(rules, text)
    /\ UNCHANGED <<exists, content, logged, impl, pad, procs, appends>>

NextFind == FindCall

SpecFind == InitCall /\ [][NextFind]_vars

Found == call # NoCall /\ call[1] = "find_first"

\* the rules of the list that match somewhere in the text
Matching(rules, text) == {k \in 1..Len(rules) : Search(rules[k], text) # NoMatch}

\* the first of them in the order of the list
FirstRule(rules, text) ==
    rules[CHOOSE k \in Matching(rules, text) : \A j \in Matching(rules, text) : k <= j]

HasGroups(rule) == \E k \in 1..Len(rule.parts) : rule.parts[k][2]

\* the captured groups of the rule's match that are not empty
Captured(rule, text) == SelectSeq(Groups(rule, text, Search(rule, text)[1]), NonEmpty)

\* the whole span of the rule's match
Span(rule, text) == Group0(text, Search(rule, text)[1])

\* the last of the groups captured, or the span where there is none
Chosen(captured, span) == IF captured = <<>> THEN span ELSE captured[Len(captured)]

\* v without the whitespace around it and the whitespace, colons and
\* semicolons at its end
Tidy(v) ==
    LET kept == {k \in 1..Len(Strip(v)) : CharAt(Strip(v), k) \notin SpaceSet \cup {";", ":"}}
    IN  IF kept = {} THEN ""
        ELSE SubSeq(Strip(v), 1, CHOOSE k \in kept : \A j \in kept : j <= k)

\* C5 as amended: find_first returns None exactly when no rule of the list
\* matches; otherwise it returns the value of the first rule in list order
\* that matches: its last non-empty captured group if any group captured
\* something, and otherwise (no group, or every group empty) the whole
\* matched span; stripped, and without trailing whitespace, colons and
\* semicolons.
C5_FirstRuleValue ==
    Found =>
        IF Matching(call[2], call[3]) = {} THEN result = None
        ELSE /\ result # None
             /\ result[1] =
                   Tidy(Chosen(Captured(FirstRule(call[2], call[3]), call[3]),
                               Span(FirstRule(call[2], call[3]), call[3])))

\* the description rule matches "Section 2" at the end of the text: its
\* one group is empty and the heading itself is the value
C5_Witness ==
    /\ Found
    /\ Matching(call[2], call[3]) # {}
    /\ HasGroups(FirstRule(call[2], call[3]))
    /\ Captured(FirstRule(call[2], call[3]), call[3]) = <<>>
    /\ result = Some("Section 2")

\* C5 as claimed: the value is the last non-empty captured group whenever
\* the rule has capturing groups, and the whole matched span only when it
\* has none.
C5_Original ==
    Found =>
        IF Matching(call[2], call[3]) = {} THEN result = None
        ELSE /\ result # None
             /\ IF HasGroups(FirstRule(call[2], call[3]))
                THEN /\ Captured(FirstRule(call[2], call[3]), call[3]) # <<>>
                     /\ result[1] =
                           Tidy(Chosen(Captured(FirstRule(call[2], call[3]), call[3]), ""))
                ELSE result[1] = Tidy(Span(FirstRule(call[2], call[3]), call[3]))

\* ------------------------------------------------------------------------
\* compute_risk_rating on words
\* ------------------------------------------------------------------------
ConsequenceWords == <<"insignificant", "minor", "moderate", "major", "severe">>

LikelihoodWords == <<"rare", "unlikely", "possible", "likely", "almost certain">>

\* a word as it may be written: in lower case, in upper case, capitalised
\* and with whitespace around it
Written(w) ==
    {w, UpperStr(w), UpperStr(SubSeq(w, 1, 1)) \o SubSeq(w, 2, Len(w)), " " \o w \o "\t\n"}

\* the words of ws as they may be written, no word, the empty word and
\* words that are none of ws
WordInputs(ws) ==
    {None, Some(""), Some(" "), Some("high"), Some("almostcertain")}
        \cup {Some(x) : x \in UNION {Written(ws[k]) : k \in 1..Len(ws)}}

RiskCall ==
    /\ call = NoCall
    /\ \E c \in WordInputs(ConsequenceWords), l \in WordInputs(LikelihoodWords) :
          /\ Remember(<<"compute_risk_rating", c, l>>)
          /\ result' = compute_risk_rating(c, l)
    /\ UNCHANGED <<exists, content, logged, impl, pad, procs, appends>>

NextRisk == RiskCall

SpecRisk == InitCall /\ [][NextRisk]_vars

Rated == call # NoCall /\ call[1] = "compute_risk_rating"

\* the ordinals of the word the input writes, among the words ws: none or one
Ordinals(input, ws) ==
    IF input = None THEN {} ELSE {k \in 1..Len(ws) : input[1] \in Written(ws[k])}

\* the label of the band a score is in
Band(score) ==
    CASE score \in 1..4 -> "Low"
      [] score \in 5..9 -> "Medium"
      [] score \in 10..16 -> "High"
      [] score \in 17..25 -> "Extreme"

\* C6: for a consequence word and a likelihood word, in any letter case and
\* with whitespace around them, compute_risk_rating returns "Label (score)"
\* with score the product of the two ordinals 1..5 and Label Low for 1-4,
\* Medium for 5-9, High for 10-16 and Extreme for 17-25; where either input
\* is absent, empty or no such word it returns None.
C6_RiskMatrix ==
    Rated =>
        /\ \A c \in Ordinals(call[2], ConsequenceWords), l \in Ordinals(call[3], LikelihoodWords) :
              result = Some(Band(c * l) \o " (" \o ToString(c * l) \o ")")
        /\ (Ordinals(call[2], ConsequenceWords) = {} \/ Ordinals(call[3], LikelihoodWords) = {})
              => result = None

\* "Major" and " likely" with whitespace after it: 4 * 4, the top of High
C6_Witness ==
    /\ Rated
    /\ call[2] = Some("Major")
    /\ call[3] = Some(" likely\t\n")
    /\ result = Some("High (16)")

\* ------------------------------------------------------------------------
\* The three ways to the engine: extract_fields itself, the /parse-sds
\* request and the command line
\* ------------------------------------------------------------------------
\* an empty text, a text of whitespace, and texts with and without the fields
\* /parse-sds asks for
PipelineTexts == {"", " \n", "Product Name: X\n", "Class 3\n"}

\* uploads parse_sds turns away for their name, their size or the failure to
\* extract a text, and uploads with the texts
Uploads ==
    {[pdf |-> FALSE, big |-> TRUE, text |-> Some("Product Name: X\n")],
     [pdf |-> TRUE, big |-> FALSE, text |-> Some("Product Name: X\n")],
     [pdf |-> TRUE, big |-> TRUE, text |-> None]}
        \cup {[pdf |-> TRUE, big |-> TRUE, text |-> Some(t)] : t \in PipelineTexts}

\* the most PDFs on one command line
MaxPdfs == 2

\* the most data rows of a store a call is made on
MaxPipelineRows == 1

RECURSIVE SeqsOf(_, _)
\* the sequences of 1..n elements of S
SeqsOf(S, n) ==
    IF n = 0 THEN {}
    ELSE {<<x>> : x \in S} \cup {<<x>> \o q : x \in S, q \in SeqsOf(S, n - 1)}

\* command lines of PDFs with no text, with whitespace and with a product
\* name, with and without --barcode
MainArgs ==
    [pdfs : SeqsOf({"", " \n", "Product Name: X\n"}, MaxPdfs), barcode : {None, Some("A1")}]

InitPipeline ==
    /\ NoStore
    /\ impl = "sds_parser"
    /\ call = NoCall
    /\ result = None
    /\ pad = FALSE

MayCall == Len(DataRows(content)) <= MaxPipelineRows

\* extract_fields called by itself
DirectCall == MayCall /\ ExtractFields(PipelineTexts)

\* one /parse-sds request
ParseSdsCall ==
    /\ MayCall
    /\ \E file \in Uploads :
          /\ Remember(<<"parse_sds", file>>)
          /\ Finish(parse_sds(file, Store))
    /\ UNCHANGED <<impl, pad, procs, appends>>

\* one run of the command line
MainCall ==
    /\ MayCall
    /\ \E args \in MainArgs :
          /\ Remember(<<"main", args>>)
          /\ Finish(main(args, Store))
    /\ UNCHANGED <<impl, pad, procs, appends>>

NextPipeline == DirectCall \/ ParseSdsCall \/ MainCall

SpecPipeline == InitPipeline /\ [][NextPipeline]_vars

\* the texts the last call brought to the engine
CallTexts ==
    CASE call = NoCall -> <<>>
      [] call[1] = "extract_fields" -> <<call[2]>>
      [] call[1] = "parse_sds" ->
           IF call[2].pdf /\ call[2].big /\ call[2].text # None THEN call[2].text ELSE <<>>
      [] call[1] = "main" -> call[2].pdfs
      [] OTHER -> <<>>

Blank(text) == Strip(text) = ""

\* the call ended in an error
Rejected == Len(result) = 2 /\ result[1] = "HTTPException"

\* C8: a call that brings an empty or whitespace-only text to the engine, by
\* extract_fields itself, by /parse-sds or by the command line, is rejected:
\* it ends in an error, returns no record and appends no row for that text.
C8_EmptyTextRejected ==
    (\E k \in 1..Len(CallTexts) : Blank(CallTexts[k])) =>
        /\ Rejected
        /\ Len(DataRows(content)) - Len(DataRows(before.content))
              <= Len(SelectSeq(CallTexts, LAMBDA t : ~Blank(t)))

\* ------------------------------------------------------------------------
\* parse_date on day, month and year strings
\* ------------------------------------------------------------------------
DateDays == {"1", "12", "29", "31", "32"}

DateMonths == {"2", "04", "12", "13"}

DateYears == {"00", "23", "68", "69", "99", "0999", "2023", "2024"}

DateSeps == {"/", "-"}

\* what stands before and after the date: nothing, whitespace, a letter, a digit
DatePrefixes == {"", " ", "1"}

DateSuffixes == {"", "x", "5"}

DateString(pre, d, sep, m, y, post) == pre \o d \o sep \o m \o sep \o y \o post

DateInputs ==
    {None, Some(""), Some("N/A")}
        \cup {Some(DateString(pre, d, sep, m, y, post)) :
                pre \in DatePrefixes, d \in DateDays, sep \in DateSeps, m \in DateMonths,
                y \in DateYears, post \in DateSuffixes}

DateCall ==
    /\ call = NoCall
    /\ \E raw \in DateInputs :
          /\ Remember(<<"parse_date", raw>>)
          /\ result' = parse_date(raw, pad)
    /\ UNCHANGED <<exists, content, logged, impl, pad, procs, appends>>

NextDate == DateCall

SpecDate == InitCall /\ [][NextDate]_vars

Dated == call # NoCall /\ call[1] = "parse_date"

\* DD/MM/YYYY of a day, a month and a four-digit year
Canonical(d, m, yyyy) == ZeroPad(d, 2) \o "/" \o ZeroPad(m, 2) \o "/" \o yyyy

\* C9: for an input D/M/YY or D-M-YY with a two-digit year such that
\* D/M/20YY is a date of the calendar, parse_date returns DD/MM/20YY.
C9_TwentyPrefix ==
    Dated =>
        \A d \in DateDays, sep \in DateSeps, m \in DateMonths, y \in DateYears :
            (/\ Len(y) = 2
             /\ call[2] = Some(DateString("", d, sep, m, y, ""))
             /\ ValidDate(2000 + ToInt(y), ToInt(m), ToInt(d)))
                => result = Some(Canonical(d, m, "20" \o y))

\* the input as parse_date cleans it: trimmed, hyphens replaced by slashes
Cleaned(raw) == ReplaceChar(Strip(raw), "-", "/")

AllDigits(s) == s # "" /\ \A k \in 1..Len(s) : CharAt(s, k) \in DigitSet

\* d, m and y are the digits of a day, a month and a year (of two digits:
\* 20YY) that are a date of the calendar
IsDayMonthYear(d, m, y) ==
    /\ AllDigits(d) /\ Len(d) <= 2
    /\ AllDigits(m) /\ Len(m) <= 2
    /\ AllDigits(y) /\ Len(y) <= 4
    /\ ValidDate(ToInt(IF Len(y) = 2 THEN "20" \o y ELSE y), ToInt(m), ToInt(d))

\* s is D/M/Y or D-M-Y, with nothing before or after, and that day is a
\* date of the calendar
IsDateString(s) ==
    \E i, j \in 1..Len(s) :
        /\ i < j
        /\ CharAt(s, i) \in DateSeps
        /\ CharAt(s, j) \in DateSeps
        /\ IsDayMonthYear(SubSeq(s, 1, i - 1), SubSeq(s, i + 1, j - 1), SubSeq(s, j + 1, Len(s)))

IsCalendarDate(raw) == IsDateString(Strip(raw))

\* the input is DD/MM/YYYY as parse_date writes it, of a date of the calendar
IsCanonicalDate(raw) ==
    \E d \in DateDays, m \in DateMonths, y \in DateYears :
        /\ Len(d) = 2 /\ Len(m) = 2 /\ Len(y) = 4
        /\ raw = DateString("", d, "/", m, y, "")
        /\ ValidDate(ToInt(y), ToInt(m), ToInt(d))

\* C10: parse_date returns and never raises; a canonical DD/MM/YYYY string
\* of a date of the calendar is returned unchanged; an input that is no
\* date of the calendar (a day the month does not have, a string with
\* characters before or after the date) is returned as cleaned, trimmed and
\* with its hyphens replaced by slashes, and never as another date.
C10_Passthrough ==
    (Dated /\ call[2] # None /\ call[2] # Some("")) =>
        /\ result # None
        /\ IsCanonicalDate(call[2][1]) => result = call[2]
        /\ ~IsCalendarDate(call[2][1]) => result = Some(Cleaned(call[2][1]))

\* ------------------------------------------------------------------------
\* Two callers of append_record_to_csv at once
\* ------------------------------------------------------------------------
\* A call is four steps, and a step of the other caller may fall between
\* any two of them: the existence check, the scan of the file, the opening
\* of the file for append (which creates it, empty, where it is not there)
\* and the write, which reaches the file in one piece when the file is
\* closed.
\*
\* whether the caller c is inside its call
Running(c) == c.pc \notin {"idle", "done"}

\* `new_row = record.to_csv_row()` and `file_exists = os.path.isfile(path)`:
\* the caller after them, `if file_exists` ahead
Begun(record, file_exists, overlapped) ==
    [pc |-> IF file_exists THEN "scan" ELSE "open",
     record |-> Some(record),
     file_exists |-> file_exists,
     overlapped |-> overlapped]

\* a scan that never finds a duplicate
ScannedNothing(c, s) == [c EXCEPT !.pc = "open"]

\* the caller c after the scan of a file of content s: it returns at a
\* duplicate, and goes on to the append otherwise
Scanned(c, s) ==
    [c EXCEPT !.pc = IF HasDuplicate(c.record[1].barcode, s) THEN "done" ELSE "open"]

\* what the caller c writes: the header where it found no file, and its row
Written19(c) ==
    HeaderLines(REGISTER_HEADERS, c.file_exists) \o WriteRow(to_csv_row(c.record[1]))

\* the records the two callers bring
RaceRecords == {[ParsedRecord EXCEPT !.barcode = b] : b \in {None, Some("A1"), Some("a1")}}

\* the store before any call
Absent == [exists |-> FALSE, content |-> "", logged |-> <<>>]

\* the stores the two callers may find: none, and one with a row of a
\* barcode neither of them brings
RaceStores ==
    {Absent, append_record_to_csv([ParsedRecord EXCEPT !.barcode = Some("B1")], Absent)}

InitRace ==
    /\ \E store \in RaceStores :
          /\ exists = store.exists
          /\ content = store.content
          /\ logged = store.logged
          /\ before = [exists |-> store.exists, content |-> store.content]
    /\ procs = NoProcs
    /\ appends = <<>>
    /\ impl = "sds_parser"
    /\ call = NoCall
    /\ result = None
    /\ pad = FALSE

\* caller p calls append_record_to_csv(r) and checks whether the file is there
BeginAppend(p) ==
    /\ procs[p].pc = "idle"
    /\ \E r \in RaceRecords :
          procs' = [q \in Procs |->
                      IF q = p
                      THEN Begun(r, exists, \E o \in Procs : o # p /\ Running(procs[o]))
                      ELSE IF Running(procs[q])
                           THEN [procs[q] EXCEPT !.overlapped = TRUE]
                           ELSE procs[q]]
    /\ UNCHANGED <<exists, content, logged, impl, call, before, result, pad, appends>>

\* caller p reads the file and looks for its barcode
ScanRows(p) ==
    /\ procs[p].pc = "scan"
    /\ procs' = [procs EXCEPT ![p] = Scanned(procs[p], content)]
    /\ logged' = IF procs'[p].pc = "done"
                 THEN <<"Skipping duplicate based on barcode %s", procs[p].record[1].barcode>>
                 ELSE logged
    /\ UNCHANGED <<exists, content, impl, call, before, result, pad, appends>>

\* caller p opens the file for append
OpenAppend(p) ==
    /\ procs[p].pc = "open"
    /\ exists' = TRUE
    /\ procs' = [procs EXCEPT ![p].pc = "write"]
    /\ UNCHANGED <<content, logged, impl, call, before, result, pad, appends>>

\* caller p writes, closes the file and logs the append
WriteRows(p) ==
    /\ procs[p].pc = "write"
    /\ content' = content \o Written19(procs[p])
    /\ logged' = <<"Appended record for barcode %s", procs[p].record[1].barcode>>
    /\ procs' = [procs EXCEPT ![p].pc = "done"]
    /\ UNCHANGED <<exists, impl, call, before, result, pad, appends>>

NextRace ==
    \E p \in Procs : BeginAppend(p) \/ ScanRows(p) \/ OpenAppend(p) \/ WriteRows(p)

SpecRace == InitRace /\ [][NextRace]_vars

RECURSIVE RowsWith(_, _, _)
\* how many of rows have b as their k-th value
RowsWith(rows, k, b) ==
    IF rows = <<>> THEN 0
    ELSE (IF Len(Head(rows)) >= k /\ Head(rows)[k] = b THEN 1 ELSE 0)
         + RowsWith(Tail(rows), k, b)

\* how many rows of the store have b in the Barcode column of the header
BarcodeRows(b) == RowsWith(ReadRows(content, 1), Len(REGISTER_HEADERS), b)

\* both callers have made their call, each with the barcode b
BothAppended(b) ==
    \A p \in Procs : procs[p].pc = "done" /\ procs[p].record[1].barcode = Some(b)

\* each call ran to its end before the other began
Serialized == \A p \in Procs : ~procs[p].overlapped

\* C11: once two callers have each appended a record with the same non-empty
\* barcode, which no row of the store had before, the store has one row with
\* that barcode where one call ran to its end before the other began, and
\* one or two rows where the calls overlapped; two rows is what the witness
\* reaches.
C11_RaceDuplicates ==
    \A b \in {"A1", "a1"} :
        BothAppended(b) =>
            /\ BarcodeRows(b) \in {1, 2}
            /\ Serialized => BarcodeRows(b) = 1
            /\ RowsWith(ReadRows(before.content, 1), Len(REGISTER_HEADERS), b) = 0

\* two calls that overlap on a store that is there: both scan before either
\* writes, and both write
C11_Witness ==
    /\ BothAppended("A1")
    /\ ~Serialized
    /\ \A p \in Procs : procs[p].file_exists
    /\ BarcodeRows("A1") = 2
    /\ Len(DataRows(content)) = 3
    /\ BarcodeAt(DictReader(content), 2) = Some("A1")
    /\ BarcodeAt(DictReader(content), 3) = Some("A1")

\* ------------------------------------------------------------------------
\* Appends one after the other, with the records they were given
\* ------------------------------------------------------------------------
\* the most appends made to the store
MaxAppends == 3

\* the records appended: without a barcode, with an empty one, with barcodes
\* that differ in case only, and with one the writer has to quote
SequenceRecords ==
    {[ParsedRecord EXCEPT !.barcode = b] :
        b \in {None, Some(""), Some("A1"), Some("a1"), Some("B,\"2")}}

InitSequence == InitStore /\ impl = "sds_parser"

\* one call of sds_parser.append_record_to_csv, which runs to its end, and
\* the record it was given
SequenceAppendCall ==
    /\ impl = "sds_parser"
    /\ Len(appends) < MaxAppends
    /\ \E r \in SequenceRecords :
          /\ Remember(<<"append_record_to_csv", r.barcode, to_csv_row(r)>>)
          /\ Leave(append_record_to_csv(r, Store))
          /\ appends' = Append(appends, r)
    /\ result' = None
    /\ UNCHANGED <<impl, pad, procs>>

NextSequence == SequenceAppendCall

SpecSequence == InitSequence /\ [][NextSequence]_vars

\* the k-th of the records rs has a barcode, and no earlier one has it
FirstOfBarcode(rs, k) ==
    /\ Truthy(rs[k].barcode)
    /\ \A j \in 1..(k - 1) : rs[j].barcode # rs[k].barcode

\* the k-th of the records rs has no barcode
NoBarcode(rs, k) == ~Truthy(rs[k].barcode)

RECURSIVE RowsKept(_, _)
\* the rows of the first k of the records rs that are not skipped: those
\* without a barcode and the first of each barcode
RowsKept(rs, k) ==
    IF k = 0 THEN <<>>
    ELSE RowsKept(rs, k - 1)
         \o (IF NoBarcode(rs, k) \/ FirstOfBarcode(rs, k) THEN <<to_csv_row(rs[k])>> ELSE <<>>)

\* the barcodes of the records rs that have one
BarcodesOf(rs) == {rs[k].barcode[1] : k \in {j \in 1..Len(rs) : Truthy(rs[j].barcode)}}

\* no two of the reader's data rows have the same Barcode, unless it is empty
UniqueBarcodes(reader) ==
    \A j, k \in 1..Len(reader.rows) :
        (j # k /\ BarcodeAt(reader, j) = BarcodeAt(reader, k)) => BarcodeAt(reader, j) = Some("")

\* C12: after any appends made one after the other to a store that was not
\* there, no two data rows have the same non-empty Barcode, the data rows
\* are the rows of the appends that were not skipped, in the order of the
\* appends, and there are as many of them as records without a barcode
\* appended plus distinct non-empty barcodes appended.
C12_UniqueBarcodes ==
    /\ UniqueBarcodes(DictReader(content))
    /\ DataRows(content) = RowsKept(appends, Len(appends))
    /\ Len(DataRows(content))
          = Cardinality({k \in 1..Len(appends) : NoBarcode(appends, k)})
            + Cardinality(BarcodesOf(appends))

\* three appends of which the third repeats the barcode of the first, with
\* a record without a barcode between them: two data rows
C12_Witness ==
    /\ Len(appends) = 3
    /\ appends[1].barcode = Some("A1")
    /\ appends[2].barcode = None
    /\ appends[3].barcode = Some("A1")
    /\ Len(DataRows(content)) = 2
    /\ logged[1] = "Skipping duplicate based on barcode %s"
====
